---- MODULE Spec2Model ----
(***************************************************************************)
(* A model of the webless HTML parser (crates/webless-html).               *)
(*                                                                         *)
(* The parser is a recursive-descent parser over the bytes of a source     *)
(* string.  The model keeps the cursor (current_index, 0-based as in the   *)
(* code), the control position (pc) and the recursion of element() as an   *)
(* explicit stack of frames, one per element whose children are being      *)
(* parsed.  Every production of the grammar is one action; the byte-wise   *)
(* scanning loops inside a production are operators that compute the       *)
(* cursor the loop ends at.  Bytes are their ASCII codes.                  *)
(***************************************************************************)
EXTENDS Integers, Sequences, FiniteSets, TLC

VARIABLES
    source,         \* ParseString.source, a sequence of bytes
    current_index,  \* ParseString.current_index (0-based byte offset)
    pc,             \* the production about to run / the loop head reached
    stack,          \* element() activations: name, attributes, children
    html_nodes,     \* the local vector of ParseString::parse
    document,       \* what parse() returned, NoDocument until it returns
    panic,          \* NoPanic, or the panic that ended the call
    reported_idx,       \* the byte_idx ParseError::new was called with, else None
    parse_error     \* NoParseError, or the value ParseError::new built

vars == <<source, current_index, pc, stack, html_nodes, document, panic, reported_idx,
          parse_error>>

----------------------------------------------------------------------------
(* Bytes.  The byte literals the parser tests for:                         *)

B_TAB == 9
B_LF == 10
B_FF == 12
B_CR == 13
B_SPACE == 32
B_BANG == 33
B_DQUOTE == 34
B_QUOTE == 39
B_DASH == 45
B_SLASH == 47
B_LT == 60
B_EQ == 61
B_GT == 62
B_BACKTICK == 96
B_DEL == 127

Lower == <<"a","b","c","d","e","f","g","h","i","j","k","l","m",
           "n","o","p","q","r","s","t","u","v","w","x","y","z">>
Upper == <<"A","B","C","D","E","F","G","H","I","J","K","L","M",
           "N","O","P","Q","R","S","T","U","V","W","X","Y","Z">>

\* The ASCII code of a letter.
Ord(c) ==
    IF \E k \in 1..26 : Lower[k] = c
    THEN 96 + (CHOOSE k \in 1..26 : Lower[k] = c)
    ELSE 64 + (CHOOSE k \in 1..26 : Upper[k] = c)

\* An alphabetic string literal of the code, as bytes.
Bytes(chars) == [k \in 1..Len(chars) |-> Ord(chars[k])]

\* Option<u8>::None
None == 0 - 1

space_chars == {B_SPACE, B_LF, B_CR, B_TAB, B_FF}

control_chars == (0..8) \cup {11} \cup (14..31) \cup {B_DEL}

to_ascii_lowercase(b) == IF b \in 65..90 THEN b + 32 ELSE b

eq_ignore_ascii_case(s, t) ==
    /\ Len(s) = Len(t)
    /\ \A k \in 1..Len(s) : to_ascii_lowercase(s[k]) = to_ascii_lowercase(t[k])

FOREIGN_ELEMENTS ==
    << Bytes(<<"s","c","r","i","p","t">>), Bytes(<<"s","t","y","l","e">>),
       Bytes(<<"t","i","t","l","e">>), Bytes(<<"t","e","x","t","a","r","e","a">>),
       Bytes(<<"s","v","g">>), Bytes(<<"m","a","t","h">>) >>

VOID_ELEMENTS ==
    << Bytes(<<"a","r","e","a">>), Bytes(<<"b","a","s","e">>), Bytes(<<"b","r">>),
       Bytes(<<"c","o","l">>), Bytes(<<"c","o","m","m","a","n","d">>),
       Bytes(<<"e","m","b","e","d">>), Bytes(<<"h","r">>), Bytes(<<"i","m","g">>),
       Bytes(<<"i","n","p","u","t">>), Bytes(<<"k","e","y","g","e","n">>),
       Bytes(<<"l","i","n","k">>), Bytes(<<"m","e","t","a">>),
       Bytes(<<"p","a","r","a","m">>), Bytes(<<"s","o","u","r","c","e">>),
       Bytes(<<"t","r","a","c","k">>), Bytes(<<"w","b","r">>) >>

contains_ignore_ascii_case(list, str) ==
    \E k \in 1..Len(list) : eq_ignore_ascii_case(list[k], str)

----------------------------------------------------------------------------
(* The AST (ast.rs).  One record shape for every variant of HTMLNode.      *)

Foreign(t) == [kind |-> "Foreign", text |-> t, name |-> <<>>, attributes |-> <<>>, children |-> <<>>]
Doctype(t) == [kind |-> "Doctype", text |-> t, name |-> <<>>, attributes |-> <<>>, children |-> <<>>]
Comment(t) == [kind |-> "Comment", text |-> t, name |-> <<>>, attributes |-> <<>>, children |-> <<>>]
Text(t)    == [kind |-> "Text", text |-> t, name |-> <<>>, attributes |-> <<>>, children |-> <<>>]
Element(n, a, c) == [kind |-> "Element", text |-> <<>>, name |-> n, attributes |-> a, children |-> c]
NoNode == [kind |-> "", text |-> <<>>, name |-> <<>>, attributes |-> <<>>, children |-> <<>>]

HTMLAttribute(n, v) == [name |-> n, value |-> v]

HTMLDocument(nodes) == [html |-> nodes]
NoDocument == [html |-> << NoNode >>]

----------------------------------------------------------------------------
(* Cursor helpers (impl ParseString, "PARSING HELPERS"), as functions of   *)
(* the cursor value i.                                                     *)

is_at_end(i) == i >= Len(source)

current(i) == IF i >= Len(source) THEN None ELSE source[i + 1]

peek(i, offset) == IF i + offset >= Len(source) THEN None ELSE source[i + offset + 1]

current_matches(i, char) == current(i) = char

current_is_alphanumeric(i) ==
    current(i) \in (48..57) \cup (65..90) \cup (97..122)

\* str::is_char_boundary: offset idx is the start or the end of the source, or
\* the byte at idx is not a continuation byte (0x80..0xBF) of a UTF-8 character.
\* The slices source[a..b] and source.get(a..b) of a &str need it of a and b.
is_char_boundary(idx) ==
    \/ idx = 0
    \/ idx = Len(source)
    \/ idx < Len(source) /\ source[idx + 1] \notin 128..191

next_match(i, chars) ==
    /\ i + Len(chars) <= Len(source)
    /\ \A k \in 1..Len(chars) : source[i + k] = chars[k]

\* &self.source[a..b]
Slice(a, b) == SubSeq(source, a + 1, b)

\* The three renderings of the current byte that error messages embed.
current_as_string(i) ==
    IF i >= Len(source) THEN [kind |-> "[document end]", byte |-> None]
    ELSE IF source[i + 1] \in control_chars
         THEN [kind |-> "[control character]", byte |-> source[i + 1]]
         ELSE [kind |-> "char", byte |-> source[i + 1]]

NoFound == [kind |-> "", byte |-> None]

\* An InternalParseError: the fixed text of the message and what is formatted
\* into it.
Error(msg, char, found, n1, n2) ==
    [msg |-> msg, char |-> char, found |-> found, expected |-> n1, got |-> n2]
NoError == [msg |-> "", char |-> None, found |-> NoFound, expected |-> <<>>, got |-> <<>>]
Message(msg) == [msg |-> msg, char |-> None, found |-> NoFound, expected |-> <<>>, got |-> <<>>]

\* expect(what, char): NoError, or "Expected <what> '<char>', found '<current>'"
expect(i, what, char) ==
    IF current_matches(i, char) THEN NoError
    ELSE Error(what, char, current_as_string(i), <<>>, <<>>)

RECURSIVE ignore_whitespace(_)
ignore_whitespace(i) ==
    IF current(i) \in space_chars THEN ignore_whitespace(i + 1) ELSE i

RECURSIVE alphanumeric_end(_)
alphanumeric_end(i) ==
    IF current_is_alphanumeric(i) THEN alphanumeric_end(i + 1) ELSE i

\* consume_alphanumeric: the range start..idx, or the error at an unmoved cursor
consume_alphanumeric(i) ==
    IF ~current_is_alphanumeric(i)
    THEN [err |-> Error("Expected alphanumeric", None, current_as_string(i), <<>>, <<>>),
          start |-> i, idx |-> i]
    ELSE [err |-> NoError, start |-> i, idx |-> alphanumeric_end(i)]

----------------------------------------------------------------------------
(* Grammar productions ("GRAMMAR IMPLEMENTATION"), as functions of the     *)
(* cursor the production is entered with.  Each yields the error (NoError  *)
(* on success), the cursor it leaves (idx) and what it parsed.  A          *)
(* production is a chain of operators, each taking what the code has       *)
(* computed so far (the end of a scan, a callee's result) as a parameter.  *)

RECURSIVE attribute_name_end(_)
attribute_name_end(i) ==
    IF \/ current(i) = None
       \/ current(i) \in space_chars \cup control_chars
       \/ current(i) \in {B_DQUOTE, B_QUOTE, B_GT, B_SLASH, B_EQ}
    THEN i
    ELSE attribute_name_end(i + 1)

RECURSIVE quoted_value_end(_, _)
quoted_value_end(i, quote) ==
    IF current(i) = None \/ current(i) \in control_chars \/ current(i) = quote
    THEN i
    ELSE quoted_value_end(i + 1, quote)

RECURSIVE unquoted_value_end(_)
unquoted_value_end(i) ==
    IF \/ current(i) = None
       \/ current(i) \in control_chars \cup space_chars
       \/ current(i) \in {B_DQUOTE, B_QUOTE, B_EQ, B_GT, B_LT, B_BACKTICK}
    THEN i
    ELSE unquoted_value_end(i + 1)

AttributeResult(err, name, value, idx) ==
    [err |-> err, attribute |-> HTMLAttribute(name, value), idx |-> idx]

\* attribute(): the quoted value, scanned from value_start to value_end
attribute_quoted_value(name, value_start, value_end, quote) ==
    IF ~current_matches(value_end, quote)
    THEN AttributeResult(expect(value_end, "value-ending quote", quote), name, <<>>, value_end)
    ELSE AttributeResult(NoError, name, Slice(value_start, value_end), value_end + 1)

\* attribute(): the value, entered at the byte after '='
attribute_value(name, v) ==
    IF current(v) = None
    THEN AttributeResult(Message("Expected attribute value after ="), name, <<>>, v)
    ELSE IF current(v) \in {B_QUOTE, B_DQUOTE}
    THEN attribute_quoted_value(name, v + 1, quoted_value_end(v + 1, current(v)), current(v))
    ELSE AttributeResult(NoError, name, Slice(v, unquoted_value_end(v)), unquoted_value_end(v))

\* attribute(): after a name that ends at name_end, with the whitespace behind it
\* skipped up to after_ws
attribute_after_name(name, name_end, after_ws) ==
    IF current(name_end) \in control_chars
    THEN AttributeResult(Error("Unexpected control character", None,
                               current_as_string(name_end), <<>>, <<>>),
                         name, <<>>, name_end)
    ELSE IF current(after_ws) = None
    THEN AttributeResult(Message("Expected something after attribute name"), name, <<>>,
                         after_ws)
    ELSE IF current_matches(after_ws, B_EQ)
    THEN attribute_value(name, after_ws + 1)
    ELSE AttributeResult(NoError, name, <<>>, after_ws)

attribute_named(i, name_end) ==
    IF name_end - i = 0
    THEN AttributeResult(Message("Expected attribute name"), <<>>, <<>>, name_end)
    ELSE attribute_after_name(Slice(i, name_end), name_end, ignore_whitespace(name_end))

attribute(i) == attribute_named(i, attribute_name_end(i))

\* (mutant of attribute_name_taken: the names compared ignoring ASCII case)
attribute_name_taken_ignoring_case(attributes, name) ==
    \E k \in 1..Len(attributes) : eq_ignore_ascii_case(attributes[k].name, name)

\* attributes.iter().any(|a| a.name == attribute.name)
attribute_name_taken(attributes, name) ==
    \E k \in 1..Len(attributes) : attributes[k].name = name

\* The attribute loop of element(): the attributes collected up to '>' or '/'.
RECURSIVE attributes_loop(_, _)
attributes_push(attributes, a) ==
    IF a.err # NoError
    THEN [err |-> a.err, attributes |-> attributes, idx |-> a.idx]
    ELSE IF attribute_name_taken(attributes, a.attribute.name)
    THEN [err |-> Message("Element has two attributes with the same name"),
          attributes |-> attributes, idx |-> a.idx]
    ELSE attributes_loop(ignore_whitespace(a.idx), Append(attributes, a.attribute))

attributes_loop(i, attributes) ==
    IF current_matches(i, B_GT) \/ current_matches(i, B_SLASH)
    THEN [err |-> NoError, attributes |-> attributes, idx |-> i]
    ELSE attributes_push(attributes, attribute(i))

OpenTag(err, kind, name, attributes, idx) ==
    [err |-> err, kind |-> kind, name |-> name, attributes |-> attributes, idx |-> idx]

\* element(): the '>' of an opening tag, expected at j
element_tag_closer(kind, element_name, attributes, j) ==
    IF ~current_matches(j, B_GT)
    THEN OpenTag(expect(j, "end of opening tag", B_GT), "", element_name, attributes, j)
    ELSE OpenTag(NoError, kind, element_name, attributes, j + 1)

\* (mutant of element_tag_end: the foreign elements are not told apart, their
\* bodies are parsed as children)
element_tag_end_without_foreign(element_name, attributes, i) ==
    IF contains_ignore_ascii_case(VOID_ELEMENTS, element_name)
    THEN element_tag_closer("void", element_name, attributes,
                            IF current_matches(i, B_SLASH) THEN i + 1 ELSE i)
    ELSE element_tag_closer("children", element_name, attributes, i)

\* (mutant of element_tag_end: the void elements are not told apart, a closing
\* tag is looked for)
element_tag_end_without_void(element_name, attributes, i) ==
    element_tag_closer(IF contains_ignore_ascii_case(FOREIGN_ELEMENTS, element_name)
                       THEN "foreign" ELSE "children",
                       element_name, attributes, i)

\* element(): the end of the opening tag; kind is "void", "foreign" or "children"
element_tag_end(element_name, attributes, i) ==
    IF contains_ignore_ascii_case(VOID_ELEMENTS, element_name)
    THEN element_tag_closer("void", element_name, attributes,
                            IF current_matches(i, B_SLASH) THEN i + 1 ELSE i)
    ELSE element_tag_closer(IF contains_ignore_ascii_case(FOREIGN_ELEMENTS, element_name)
                            THEN "foreign" ELSE "children",
                            element_name, attributes, i)

element_attributes(element_name, al) ==
    IF al.err # NoError
    THEN OpenTag(al.err, "", element_name, al.attributes, al.idx)
    ELSE element_tag_end(element_name, al.attributes, al.idx)

element_named(n) ==
    IF n.err # NoError
    THEN OpenTag(n.err, "", <<>>, <<>>, n.idx)
    ELSE element_attributes(Slice(n.start, n.idx),
                            attributes_loop(ignore_whitespace(n.idx), <<>>))

\* element() from '<' to the end of the opening tag
element_open(i) == element_named(consume_alphanumeric(i + 1))

element_close_end(j) ==
    IF ~current_matches(j, B_GT)
    THEN [err |-> expect(j, "end of opening tag", B_GT), idx |-> j]
    ELSE [err |-> NoError, idx |-> j + 1]

\* (mutant of element_closing_name: the closing name compared byte by byte)
element_closing_name_exact(element_name, n) ==
    IF n.err # NoError
    THEN [err |-> n.err, idx |-> n.idx]
    ELSE IF Slice(n.start, n.idx) # element_name
    THEN [err |-> Error("Mismatched closing tag", None, NoFound, element_name,
                        Slice(n.start, n.idx)),
          idx |-> n.idx]
    ELSE element_close_end(ignore_whitespace(n.idx))

\* element(): the closing name, compared with the opening name ignoring case
element_closing_name(element_name, n) ==
    IF n.err # NoError
    THEN [err |-> n.err, idx |-> n.idx]
    ELSE IF ~eq_ignore_ascii_case(Slice(n.start, n.idx), element_name)
    THEN [err |-> Error("Mismatched closing tag", None, NoFound, element_name,
                        Slice(n.start, n.idx)),
          idx |-> n.idx]
    ELSE element_close_end(ignore_whitespace(n.idx))

\* The closing tag of element(), entered at "</".
element_close(element_name, i) ==
    element_closing_name(element_name, consume_alphanumeric(i + 2))

RECURSIVE text_end(_)
text_end(i) ==
    IF current(i) = None \/ current(i) \in control_chars \/ current(i) = B_LT
    THEN i
    ELSE text_end(i + 1)

text_run(starting_index, end) ==
    [err |-> NoError, node |-> Text(Slice(starting_index, end)), idx |-> end]

\* text(): always Ok
text(i) == text_run(i, text_end(i))

\* (mutant of foreign_closer_at: any "</" ends the foreign text)
foreign_closer_at_any_tag(i, element_name) ==
    next_match(i, <<B_LT, B_SLASH>>)

\* Whether the closing tag of element_name starts at i (the test of foreign_text).
foreign_closer_at(i, element_name) ==
    /\ next_match(i, <<B_LT, B_SLASH>>)
    /\ i + 2 + Len(element_name) <= Len(source)
    /\ is_char_boundary(i + 2) /\ is_char_boundary(i + 2 + Len(element_name))
    /\ eq_ignore_ascii_case(Slice(i + 2, i + 2 + Len(element_name)), element_name)

RECURSIVE foreign_text_end(_, _)
foreign_text_end(i, element_name) ==
    IF current(i) = None \/ foreign_closer_at(i, element_name)
    THEN i
    ELSE foreign_text_end(i + 1, element_name)

foreign_text_run(starting_index, end, element_name) ==
    IF current(end) = None
    THEN [err |-> Error("Expected closing tag", None, NoFound, element_name, <<>>),
          node |-> NoNode, idx |-> end]
    ELSE [err |-> NoError, node |-> Foreign(Slice(starting_index, end)), idx |-> end]

foreign_text(i, element_name) ==
    foreign_text_run(i, foreign_text_end(i, element_name), element_name)

\* Whether comment() refuses the content that starts at i.
comment_start_refused(i) ==
    next_match(i, <<B_DASH, B_GT>>) \/ current_matches(i, B_DASH)

\* (mutant of comment_scan: a "--" that no '>' follows is scanned over)
RECURSIVE comment_scan_over_dashes(_)
comment_scan_over_dashes(i) ==
    IF current(i) = None
    THEN [err |-> NoError, idx |-> i]
    ELSE IF next_match(i, <<B_DASH, B_DASH>>) /\ peek(i, 2) = B_GT
    THEN [err |-> NoError, idx |-> i]
    ELSE comment_scan_over_dashes(i + 1)

\* The scanning loop of comment(): where it stops, and the error it returns there.
RECURSIVE comment_scan(_)
comment_scan(i) ==
    IF current(i) = None
    THEN [err |-> NoError, idx |-> i]
    ELSE IF next_match(i, <<B_DASH, B_DASH>>)
    THEN IF peek(i, 2) = B_GT
         THEN [err |-> NoError, idx |-> i]
         ELSE [err |-> Message("Comments may not contain '--'"), idx |-> i]
    ELSE comment_scan(i + 1)

\* (mutant of comment_scanned: "-->" is consumed without the test that the scan
\* stopped before the end of the source)
comment_scanned_unterminated(starting_index, scan) ==
    IF scan.err # NoError
    THEN [err |-> scan.err, node |-> NoNode, idx |-> scan.idx]
    ELSE [err |-> NoError, node |-> Comment(Slice(starting_index, scan.idx)),
          idx |-> scan.idx + 3]

\* comment(): after the scanning loop
comment_scanned(starting_index, scan) ==
    IF scan.err # NoError
    THEN [err |-> scan.err, node |-> NoNode, idx |-> scan.idx]
    ELSE IF current(scan.idx) = None
    THEN [err |-> Message("Expected comment tag closer '-->'"), node |-> NoNode,
          idx |-> scan.idx]
    ELSE [err |-> NoError, node |-> Comment(Slice(starting_index, scan.idx)),
          idx |-> scan.idx + 3]

comment_body(starting_index) ==
    IF comment_start_refused(starting_index)
    THEN [err |-> Message("Comments may not start with '>' or '->'"), node |-> NoNode,
          idx |-> starting_index]
    ELSE comment_scanned(starting_index, comment_scan(starting_index))

\* comment(), entered at "<!-"
comment(i) ==
    IF ~current_matches(i + 3, B_DASH)
    THEN [err |-> expect(i + 3, "second - in comment declaration", B_DASH),
          node |-> NoNode, idx |-> i + 3]
    ELSE comment_body(i + 4)

RECURSIVE doctype_end(_)
doctype_end(i) ==
    IF current(i) = None \/ current(i) = B_GT THEN i ELSE doctype_end(i + 1)

doctype_run(starting_index, end) ==
    IF current(end) = None
    THEN [panic |-> "", err |-> Message("Expected DOCTYPE tag closer '>'"),
          node |-> NoNode, idx |-> end]
    ELSE [panic |-> "", err |-> NoError, node |-> Doctype(Slice(starting_index, end)),
          idx |-> end + 1]

doctype_content(starting_index) == doctype_run(starting_index, doctype_end(starting_index))

\* doctype_declaration(), entered at "<!".  The slice source[i+2..i+9] is taken
\* unchecked: it panics when i + 9 is out of the range of the source, and when
\* i + 2 or i + 9 is inside a multi-byte character of it.
doctype_declaration(i) ==
    IF i + 9 > Len(source)
    THEN [panic |-> "slice index out of range", err |-> NoError, node |-> NoNode,
          idx |-> i]
    ELSE IF ~is_char_boundary(i + 2) \/ ~is_char_boundary(i + 9)
    THEN [panic |-> "slice index is not a char boundary", err |-> NoError,
          node |-> NoNode, idx |-> i]
    ELSE IF ~eq_ignore_ascii_case(Slice(i + 2, i + 9),
                                  Bytes(<<"D", "O", "C", "T", "Y", "P", "E">>))
    THEN [panic |-> "", err |-> Message("(empty)"), node |-> NoNode, idx |-> i]
    ELSE doctype_content(ignore_whitespace(i + 9))

\* The 0-based indices of the '\n' bytes of src[0..byte_idx].
newline_indices(src, byte_idx) == {k \in 0..(byte_idx - 1) : src[k + 1] = B_LF}

\* .enumerate().filter(..).last().unwrap_or((0, &0)).0
last_newline_idx(newlines) ==
    IF newlines = {} THEN 0 ELSE CHOOSE k \in newlines : \A m \in newlines : m <= k

ParseError_at(msg, byte_idx, newlines) ==
    [msg |-> msg, line |-> Cardinality(newlines),
     col |-> byte_idx - last_newline_idx(newlines)]

\* ParseError::new(msg, source, byte_idx)
ParseError_new(msg, src, byte_idx) ==
    ParseError_at(msg, byte_idx, newline_indices(src, byte_idx))

----------------------------------------------------------------------------
(* The inputs: every concatenation of at most MaxToks tokens, each of them  *)
(* valid UTF-8, as a &str is.                                              *)

MaxToks == 3

\* The most children the model lets one element collect.
MaxChildren == 6

Tokens ==
    { <<B_LT>>, <<B_GT>>, <<B_SLASH>>, <<B_DASH>>, <<B_EQ>>, <<B_DQUOTE>>,
      <<B_SPACE>>, <<B_LF>>,
      <<1>>,                                             \* the control byte 0x01
      <<97>>, <<65>>,                                    \* a  A
      <<195, 169>>,                                      \* e with an acute accent, in UTF-8
      <<B_LT, 97, B_GT>>,                                \* <a>
      <<B_LT, 65, B_GT>>,                                \* <A>
      <<B_LT, B_SLASH, 97, B_GT>>,                       \* </a>
      <<B_LT, 98, 114>>,                                 \* <br
      <<B_LT, 66, 82, B_SPACE>>,                         \* <BR, then a space
      <<B_LT, 98, 114, B_SPACE, 97, B_SPACE>>,           \* <br a, then a space
      <<B_LT, 115, 118, 103, B_GT>>,                     \* <svg>
      <<B_LT, B_SLASH, 115, 118, 103>>,                  \* </svg
      <<B_LT, B_SLASH, 83, 86, 71, B_GT>>,               \* </SVG>
      <<B_LT, B_BANG>>,                                  \* <!
      <<B_LT, B_BANG, B_DASH, B_DASH>>,                  \* <!--
      <<B_DASH, B_DASH, B_GT>>,                          \* -->
      <<B_LT, B_BANG, 68, 79, 67, 84, 89, 80, 69>>,      \* <!DOCTYPE
      <<B_LT, B_BANG, 68, 79, 67, 84, 89, 80, 69, B_SPACE, 97, B_GT>> }  \* <!DOCTYPE a>

RECURSIVE Concat(_, _)
\* The first n of the chosen tokens, written one after the other.
Concat(chosen, n) ==
    IF n = 0 THEN <<>> ELSE Concat(chosen, n - 1) \o chosen[n]

\* A choice of MaxToks tokens, any of which may be left out.
Choices == [1..MaxToks -> Tokens \cup {<<>>}]

----------------------------------------------------------------------------
(* The state machine.                                                      *)

NoPanic == [kind |-> "", error |-> NoError]
NoParseError == [msg |-> NoError, line |-> None, col |-> None]

Frame(name, attributes, children) ==
    [name |-> name, attributes |-> attributes, children |-> children]

\* ParseString::new, before parse() runs
Init ==
    /\ \E chosen \in Choices : source = Concat(chosen, MaxToks)
    /\ current_index = 0
    /\ pc = "parse"
    /\ stack = <<>>
    /\ html_nodes = <<>>
    /\ document = NoDocument
    /\ panic = NoPanic
    /\ reported_idx = None
    /\ parse_error = NoParseError

\* A production returns Err at cursor idx: `?` carries it up to parse(), whose
\* unwrap() panics; the locals of every activation are dropped.
Fail(err, idx) ==
    /\ current_index' = idx
    /\ pc' = "done"
    /\ panic' = [kind |-> "unwrap", error |-> err]
    /\ stack' = <<>>
    /\ html_nodes' = <<>>
    /\ UNCHANGED <<source, document, reported_idx, parse_error>>

\* The frames with node pushed onto the children of the innermost element.
PushChild(frames, node) ==
    [frames EXCEPT ![Len(frames)].children = Append(@, node)]

\* A production returns Ok(node) at cursor idx to its caller: the loop of parse()
\* when no element is open (frames empty), else the child loop of element().
Return(frames, node, idx) ==
    /\ current_index' = idx
    /\ IF frames = <<>>
       THEN /\ html_nodes' = Append(html_nodes, node)
            /\ stack' = frames
            /\ pc' = "parse"
       ELSE /\ Len(frames[Len(frames)].children) < MaxChildren
            /\ stack' = PushChild(frames, node)
            /\ pc' = "children"
            /\ UNCHANGED html_nodes
    /\ UNCHANGED <<source, document, panic, reported_idx, parse_error>>

\* A production's outcome r = (err, node, idx), handed to the caller.
Deliver(frames, r) ==
    IF r.err # NoError THEN Fail(r.err, r.idx) ELSE Return(frames, r.node, r.idx)

Goto(next, idx) ==
    /\ pc' = next
    /\ current_index' = idx
    /\ UNCHANGED <<source, stack, html_nodes, document, panic, reported_idx,
                 parse_error>>

\* (mutant of Parse: the whitespace after the last node is skipped before the
\* test for the end of the input)
Parse_skipping_trailing_whitespace ==
    /\ pc = "parse"
    /\ IF is_at_end(ignore_whitespace(current_index))
       THEN /\ document' = HTMLDocument(html_nodes)
            /\ pc' = "done"
            /\ UNCHANGED <<source, current_index, stack, html_nodes, panic, reported_idx,
                           parse_error>>
       ELSE Goto("strict_node", current_index)

\* ParseString::parse: one test of the loop `while !self.is_at_end()`
Parse ==
    /\ pc = "parse"
    /\ IF is_at_end(current_index)
       THEN /\ document' = HTMLDocument(html_nodes)
            /\ pc' = "done"
            /\ UNCHANGED <<source, current_index, stack, html_nodes, panic, reported_idx,
                           parse_error>>
       ELSE Goto("strict_node", current_index)

\* strict_node() with the leading whitespace skipped up to i
strict_node_at(i) ==
    IF ~current_matches(i, B_LT)
    THEN Fail(expect(i, "start of a node", B_LT), i)
    ELSE IF peek(i, 1) = None
    THEN Fail(Message("Expected something after start of node"), i)
    ELSE IF peek(i, 1) = B_BANG
    THEN IF peek(i, 2) = B_DASH THEN Goto("comment", i) ELSE Goto("doctype", i)
    ELSE Goto("element", i)

StrictNode ==
    /\ pc = "strict_node"
    /\ strict_node_at(ignore_whitespace(current_index))

CommentNode ==
    /\ pc = "comment"
    /\ Deliver(stack, comment(current_index))

\* What strict_node() makes of the result r of doctype_declaration()
doctype_or_comment(r) ==
    IF r.panic # ""
    THEN /\ pc' = "done"
         /\ panic' = [kind |-> r.panic, error |-> NoError]
         /\ stack' = <<>>
         /\ html_nodes' = <<>>
         /\ UNCHANGED <<source, current_index, document, reported_idx, parse_error>>
    ELSE IF r.err # NoError
    THEN Fail(Message("Expected doctype declaration or comment"), r.idx)
    ELSE Return(stack, r.node, r.idx)

DoctypeNode ==
    /\ pc = "doctype"
    /\ doctype_or_comment(doctype_declaration(current_index))

\* element() after the opening tag o
element_opened(o) ==
    IF o.err # NoError
    THEN Fail(o.err, o.idx)
    ELSE IF o.kind = "void"
    THEN Return(stack, Element(o.name, o.attributes, <<>>), o.idx)
    ELSE /\ stack' = Append(stack, Frame(o.name, o.attributes, <<>>))
         /\ pc' = IF o.kind = "foreign" THEN "foreign_text" ELSE "children"
         /\ current_index' = o.idx
         /\ UNCHANGED <<source, html_nodes, document, panic, reported_idx, parse_error>>

\* element(), up to the end of the opening tag
ElementOpen ==
    /\ pc = "element"
    /\ element_opened(element_open(current_index))

\* children.push(self.foreign_text(element_name)?)
foreign_child(r) ==
    IF r.err # NoError
    THEN Fail(r.err, r.idx)
    ELSE /\ stack' = PushChild(stack, r.node)
         /\ pc' = "close_tag"
         /\ current_index' = r.idx
         /\ UNCHANGED <<source, html_nodes, document, panic, reported_idx, parse_error>>

ForeignText ==
    /\ pc = "foreign_text"
    /\ foreign_child(foreign_text(current_index, stack[Len(stack)].name))

\* element(): one test of the child loop `while !self.next_match(b"</")`
Children ==
    /\ pc = "children"
    /\ IF next_match(current_index, <<B_LT, B_SLASH>>)
       THEN Goto("close_tag", current_index)
       ELSE IF current(current_index) = None \/ peek(current_index, 1) = None
       THEN Fail(Error("Expected matching closing tag for", None, NoFound,
                       stack[Len(stack)].name, <<>>),
                 current_index)
       ELSE Goto("node", current_index)

\* node(), called from the child loop
Node ==
    /\ pc = "node"
    /\ IF ~current_matches(current_index, B_LT)
       THEN Deliver(stack, text(current_index))
       ELSE Goto("strict_node", current_index)

\* element(): Ok(Element) after the closing tag, to the caller of element()
element_closed(top, frames, r) ==
    IF r.err # NoError
    THEN Fail(r.err, r.idx)
    ELSE Return(frames, Element(top.name, top.attributes, top.children), r.idx)

\* element(), from "</" on
CloseTag ==
    /\ pc = "close_tag"
    /\ element_closed(stack[Len(stack)], SubSeq(stack, 1, Len(stack) - 1),
                      element_close(stack[Len(stack)].name, current_index))

Next ==
    \/ Parse
    \/ StrictNode
    \/ CommentNode
    \/ DoctypeNode
    \/ ElementOpen
    \/ ForeignText
    \/ Children
    \/ Node
    \/ CloseTag

Spec == Init /\ [][Next]_vars

----------------------------------------------------------------------------
(* The Error Reporter (parse_error.rs) on its own: ParseError::new is      *)
(* pub(crate) and parser.rs never calls it, so it is driven here with      *)
(* every source of at most MaxReportLen bytes over {'\n', 'a'} and every   *)
(* byte offset into it.                                                    *)

MaxReportLen == 4

RECURSIVE ReportSourcesOf(_)
ReportSourcesOf(n) ==
    IF n = 0 THEN {<<>>}
    ELSE ReportSourcesOf(n - 1)
         \cup {Append(s, b) : s \in ReportSourcesOf(n - 1), b \in {B_LF, 97}}

InitReport ==
    /\ source \in ReportSourcesOf(MaxReportLen)
    /\ current_index = 0
    /\ pc = "parse"
    /\ stack = <<>>
    /\ html_nodes = <<>>
    /\ document = NoDocument
    /\ panic = NoPanic
    /\ reported_idx = None
    /\ parse_error = NoParseError

\* ParseError::new(msg, source, idx), for an offset idx the slice source[0..idx] accepts
NewParseError ==
    /\ parse_error = NoParseError
    /\ \E idx \in 0..Len(source) :
          /\ reported_idx' = idx
          /\ parse_error' = ParseError_new(Message("Expected something after start of node"),
                                           source, idx)
    /\ UNCHANGED <<source, current_index, pc, stack, html_nodes, document, panic>>

NextReport == NewParseError

SpecReport == InitReport /\ [][NextReport]_vars


----------------------------------------------------------------------------
(* What the claims are stated over.                                        *)

RECURSIVE NodesOf(_)
\* The nodes of a sequence of trees, at every depth.
NodesOf(nodes) ==
    UNION {{nodes[k]} \cup NodesOf(nodes[k].children) : k \in 1..Len(nodes)}

\* The nodes of the Document parse() returned (none before it returns).
DocumentNodes == IF document = NoDocument THEN {} ELSE NodesOf(document.html)

\* The nodes the parser holds: returned, collected at the top level, or collected
\* as children of an element that is still open.
BuiltNodes ==
    DocumentNodes \cup NodesOf(html_nodes)
        \cup UNION {NodesOf(stack[k].children) : k \in 1..Len(stack)}

HasChildOfKind(e, kind) == \E k \in 1..Len(e.children) : e.children[k].kind = kind

StartsWith(t, prefix) ==
    Len(prefix) <= Len(t) /\ \A k \in 1..Len(prefix) : t[k] = prefix[k]

HasControl(t) == \E k \in 1..Len(t) : t[k] \in control_chars

\* The element that is being closed holds the one Foreign child foreign_text() gave it.
ForeignScanned ==
    /\ pc = "close_tag"
    /\ Len(stack[Len(stack)].children) = 1
    /\ stack[Len(stack)].children[1].kind = "Foreign"

\* "</" and then Len(name) bytes that equal name ignoring ASCII case, at offset j
ClosingTagPrefixAt(j, name) ==
    /\ j + 2 + Len(name) <= Len(source)
    /\ source[j + 1] = B_LT
    /\ source[j + 2] = B_SLASH
    /\ \A k \in 1..Len(name) :
          to_ascii_lowercase(source[j + 2 + k]) = to_ascii_lowercase(name[k])

----------------------------------------------------------------------------
(* The claims.                                                             *)

\* C1 (as claimed): every pass of the child loop of element() makes progress: when
\* node() hands a child back to the loop, the cursor has advanced.
C1_ChildLoopProgress ==
    [][(pc = "node" /\ pc' = "children") => current_index' > current_index]_vars

\* C2 (as claimed): a parse that ends has returned a Document or an Error value;
\* it has not ended in a panic.
C2_FailureIsAnErrorResult ==
    pc = "done" => /\ panic = NoPanic
                   /\ document # NoDocument \/ parse_error # NoParseError

\* C3 (as claimed): in a returned Document no Element has a Doctype among its
\* children.
C3_NoDoctypeChild ==
    \A e \in DocumentNodes : ~HasChildOfKind(e, "Doctype")

\* C3 (amended): in a returned Document a Doctype is a child only of an element
\* that is neither void nor foreign (node() hands every '<' to strict_node(),
\* which accepts a doctype declaration); void and foreign elements have none.
C3_DoctypeChildOnlyOfPlainElement ==
    \A e \in DocumentNodes :
        HasChildOfKind(e, "Doctype")
            => /\ e.kind = "Element"
               /\ ~contains_ignore_ascii_case(VOID_ELEMENTS, e.name)
               /\ ~contains_ignore_ascii_case(FOREIGN_ELEMENTS, e.name)

\* C3 witness: a Document was returned in which an element has a Doctype child.
C3_DoctypeChildReturned ==
    \E e \in DocumentNodes : HasChildOfKind(e, "Doctype")

\* C4 (as claimed): the reported line is the number of '\n' bytes strictly before
\* the offset, plus one.
C4_LineIsOneBased ==
    parse_error # NoParseError
        => parse_error.line
             = Cardinality({k \in 1..reported_idx : source[k] = B_LF}) + 1

\* C5 (as claimed): the reported column is the 1-based column of the offset within
\* its line, on the first line as on the later ones: the offset minus the offset
\* at which its line starts, plus one.
C5_ColumnIsOneBased ==
    parse_error # NoParseError
        => LET before == {k \in 1..reported_idx : source[k] = B_LF}
               line_start == IF before = {} THEN 0
                             ELSE CHOOSE k \in before : \A m \in before : m <= k
           IN  parse_error.col = reported_idx - line_start + 1

\* C6 (as claimed): in a returned Document no Comment's text starts with '>' or
\* with "->".
C6_CommentStart ==
    \A n \in DocumentNodes :
        n.kind = "Comment"
            => ~StartsWith(n.text, <<B_GT>>) /\ ~StartsWith(n.text, <<B_DASH, B_GT>>)

\* C7 (as claimed): foreign_text() stops only at a closing tag whose name equals
\* the opening name ignoring ASCII case: the whole alphanumeric name after the
\* "</" it stopped at is the name of the element.
C7_StopsOnlyAtMatchingName ==
    ForeignScanned
        => eq_ignore_ascii_case(
               Slice(current_index + 2, alphanumeric_end(current_index + 2)),
               stack[Len(stack)].name)

\* C7 (amended): the Foreign child is the source from just after the '>' of the
\* opening tag up to the first "</" whose next Len(name) bytes equal the opening
\* name ignoring ASCII case; no earlier '<' or "</" ends it.
C7_ForeignSpan ==
    ForeignScanned
        => LET name == stack[Len(stack)].name
               span == stack[Len(stack)].children[1].text
               start == current_index - Len(span)
           IN  /\ start >= 1
               /\ source[start] = B_GT
               /\ span = SubSeq(source, start + 1, current_index)
               /\ ClosingTagPrefixAt(current_index, name)
               /\ \A j \in start..(current_index - 1) : ~ClosingTagPrefixAt(j, name)

\* C7 witness: a foreign body that holds a closing tag of another name was scanned
\* to its end.
C7_ForeignSpanHoldsClosingTag ==
    /\ ForeignScanned
    /\ \E k \in 1..Len(stack[Len(stack)].children[1].text) :
          StartsWith(SubSeq(stack[Len(stack)].children[1].text, k,
                            Len(stack[Len(stack)].children[1].text)),
                     <<B_LT, B_SLASH>>)

\* C8 (as claimed): no Document is returned for a source with a control character
\* in a comment, in element text, or in an attribute name or value: the returned
\* Document holds none there.
C8_NoControlCharacterReturned ==
    \A n \in DocumentNodes :
        /\ n.kind \in {"Comment", "Text"} => ~HasControl(n.text)
        /\ \A k \in 1..Len(n.attributes) :
              ~HasControl(n.attributes[k].name) /\ ~HasControl(n.attributes[k].value)

\* C9: no Comment the parser builds holds the run "--"; and the parse fails with
\* "Comments may not contain '--'" only at a "--" that no '>' follows.
C9_NoDoubleDashInComment ==
    /\ \A n \in BuiltNodes :
          n.kind = "Comment"
              => \A k \in 1..(Len(n.text) - 1) :
                    ~(n.text[k] = B_DASH /\ n.text[k + 1] = B_DASH)
    /\ panic.error = Message("Comments may not contain '--'")
          => /\ current_index + 2 <= Len(source)
             /\ source[current_index + 1] = B_DASH
             /\ source[current_index + 2] = B_DASH
             /\ (current_index + 3 <= Len(source) => source[current_index + 3] # B_GT)

\* C9 witness: a Document with a Comment of some text was returned.
C9_CommentReturned ==
    \E n \in DocumentNodes : n.kind = "Comment" /\ n.text # <<>>

\* C10: the attribute names of an element are pairwise distinct, compared byte by
\* byte; and names that differ only in case are both kept, in source order
\* (<br a A> gives the attributes a and A).
C10_AttributeNamesDistinct ==
    /\ \A e \in BuiltNodes :
          \A j, k \in 1..Len(e.attributes) :
              j # k => e.attributes[j].name # e.attributes[k].name
    /\ \A f \in 1..Len(stack) :
          \A j, k \in 1..Len(stack[f].attributes) :
              j # k => stack[f].attributes[j].name # stack[f].attributes[k].name
    /\ (pc = "done" /\ source = <<B_LT, 98, 114, B_SPACE, 97, B_SPACE, 65, B_GT>>)
          => document = HTMLDocument(<< Element(<<98, 114>>,
                                                << HTMLAttribute(<<97>>, <<>>),
                                                   HTMLAttribute(<<65>>, <<>>) >>,
                                                <<>>) >>)

\* C10 witness: a Document was returned with an element whose attributes are
\* named a and A, in that order.
C10_BothCasesKept ==
    \E e \in DocumentNodes :
        /\ Len(e.attributes) = 2
        /\ e.attributes[1].name = <<97>>
        /\ e.attributes[2].name = <<65>>

\* The element being closed, the name written after its "</", and the node the
\* closing step hands to the caller of element().
ClosingElement == stack[Len(stack)]
ClosingName == Slice(current_index + 2, alphanumeric_end(current_index + 2))
ClosedNode ==
    IF Len(stack) = 1
    THEN html_nodes'[Len(html_nodes')]
    ELSE stack'[Len(stack) - 1].children[Len(stack'[Len(stack) - 1].children)]

\* C11: at the closing tag of a non-foreign element with a closing name, a name
\* that equals the opening name ignoring ASCII case is accepted (no mismatch
\* error, and once the '>' follows the Element is returned with the opening name
\* as written and the cursor just after the '>'); any other name fails with the
\* mismatch error that names the opening and the closing name.
C11_ClosingNameMatchesIgnoringCase ==
    [][(/\ pc = "close_tag"
        /\ ~contains_ignore_ascii_case(FOREIGN_ELEMENTS, ClosingElement.name)
        /\ ClosingName # <<>>)
       => IF \E k \in 1..Len(ClosingName) :
                 \/ k > Len(ClosingElement.name)
                 \/ to_ascii_lowercase(ClosingName[k])
                        # to_ascii_lowercase(ClosingElement.name[k])
             \/ Len(ClosingName) # Len(ClosingElement.name)
          THEN /\ pc' = "done"
               /\ document' = NoDocument
               /\ panic'.kind = "unwrap"
               /\ panic'.error.msg = "Mismatched closing tag"
               /\ panic'.error.expected = ClosingElement.name
               /\ panic'.error.got = ClosingName
          ELSE /\ panic'.error.msg # "Mismatched closing tag"
               /\ panic' = NoPanic
                    => /\ source[current_index'] = B_GT
                       /\ ClosedNode.kind = "Element"
                       /\ ClosedNode.name = ClosingElement.name
                       /\ ClosedNode.attributes = ClosingElement.attributes
                       /\ ClosedNode.children = ClosingElement.children]_vars

\* C11 witness: a Document was returned with an Element whose name is written as
\* its opening tag wrote it (A) although its closing tag wrote a, and whose child
\* is a Text.
C11_OpeningNameKept ==
    \E e \in DocumentNodes :
        /\ e.kind = "Element"
        /\ e.name = <<65>>
        /\ source = <<B_LT, 65, B_GT, 97, B_LT, B_SLASH, 97, B_GT>>
        /\ e.children = <<Text(<<97>>)>>

\* The tag name written after the '<' an element starts at, where the opening
\* tag ends when it has no attributes (after the name, the whitespace and an
\* optional '/'), and the node that the opening step hands to the caller.
OpeningName == Slice(current_index + 1, alphanumeric_end(current_index + 1))
OpeningTagEnd ==
    IF current_matches(ignore_whitespace(alphanumeric_end(current_index + 1)), B_SLASH)
    THEN ignore_whitespace(alphanumeric_end(current_index + 1)) + 1
    ELSE ignore_whitespace(alphanumeric_end(current_index + 1))
OpenedNode ==
    IF stack = <<>>
    THEN html_nodes'[Len(html_nodes')]
    ELSE stack'[Len(stack)].children[Len(stack'[Len(stack)].children)]

\* C12: an opening tag with a void name (ignoring ASCII case) and no attributes,
\* written <name>, <name/> or <name />, is parsed in one step to the Element with
\* that name as written, no attributes and no children, handed to the caller with
\* the cursor just after the '>': no element is left open and no closing tag is
\* looked for.
C12_VoidElementForms ==
    [][(/\ pc = "element"
        /\ OpeningName # <<>>
        /\ \E k \in 1..Len(VOID_ELEMENTS) :
              /\ Len(VOID_ELEMENTS[k]) = Len(OpeningName)
              /\ \A c \in 1..Len(OpeningName) :
                    to_ascii_lowercase(OpeningName[c]) = VOID_ELEMENTS[k][c]
        /\ current_matches(OpeningTagEnd, B_GT))
       => /\ panic' = NoPanic
          /\ current_index' = OpeningTagEnd + 1
          /\ Len(stack') = Len(stack)
          /\ pc' = IF stack = <<>> THEN "parse" ELSE "children"
          /\ OpenedNode = [kind |-> "Element", text |-> <<>>, name |-> OpeningName,
                           attributes |-> <<>>, children |-> <<>>]]_vars

\* C12 witness: <BR /> was parsed to a Document that holds the Element BR without
\* attributes or children, and nothing else.
C12_VoidElementReturned ==
    /\ source = <<B_LT, 66, 82, B_SPACE, B_SLASH, B_GT>>
    /\ document = [html |-> << [kind |-> "Element", text |-> <<>>, name |-> <<66, 82>>,
                                attributes |-> <<>>, children |-> <<>>] >>]

\* The literal DOCTYPE, in any case, follows the "<!" at the cursor.
DoctypeLiteralFollows ==
    /\ current_index + 9 <= Len(source)
    /\ \A k \in 1..7 :
          to_ascii_lowercase(source[current_index + 2 + k])
              = Bytes(<<"d", "o", "c", "t", "y", "p", "e">>)[k]

\* C13 (as claimed): when a node starts with "<!", a byte other than '-' follows
\* and the literal DOCTYPE does not, strict_node() fails with the error "Expected
\* doctype declaration or comment", however few bytes follow the "<!"; the check
\* ends the parse in no other way.
C13_DoctypeCheckFailsWithGenericError ==
    [][(/\ pc = "doctype"
        /\ peek(current_index, 2) # None
        /\ ~DoctypeLiteralFollows)
       => /\ pc' = "done"
          /\ panic'.kind = "unwrap"
          /\ panic'.error.msg = "Expected doctype declaration or comment"]_vars

\* The error of expect("start of a node", b'<') at offset i.
StartOfNodeError(i) ==
    [msg |-> "start of a node", char |-> B_LT,
     found |-> IF i >= Len(source) THEN [kind |-> "[document end]", byte |-> None]
               ELSE IF source[i + 1] \in control_chars
               THEN [kind |-> "[control character]", byte |-> source[i + 1]]
               ELSE [kind |-> "char", byte |-> source[i + 1]],
     expected |-> <<>>, got |-> <<>>]

\* A Document is returned only with the cursor at the end of the source, and for
\* a source that is not empty only when it ends with the '>' of a top-level node.
DocumentEndsWithNode ==
    document # NoDocument
        => /\ pc = "done"
           /\ current_index = Len(source)
           /\ source # <<>> => document.html # <<>> /\ source[Len(source)] = B_GT

\* A source of whitespace only fails with the start-of-a-node error at its end.
WhitespaceOnlyFails ==
    (/\ pc = "done"
     /\ source # <<>>
     /\ \A k \in 1..Len(source) : source[k] \in space_chars)
        => /\ document = NoDocument
           /\ panic.kind = "unwrap"
           /\ panic.error = StartOfNodeError(Len(source))

\* C14: whitespace is skipped before a top-level node and not after the last one:
\* a Document is returned only with the cursor at the end of a source that is
\* empty or ends with the '>' of its last top-level node; and where, after the
\* whitespace, something other than '<' (or nothing) stands in the place of a
\* node, which happens at the top level only, the parse fails there with the
\* error "Expected start of a node '<'", without a Document.
C14_OnlyNodesAtTopLevel ==
    /\ []DocumentEndsWithNode
    /\ []WhitespaceOnlyFails
    /\ [][(/\ pc = "strict_node"
           /\ \/ ignore_whitespace(current_index) >= Len(source)
              \/ source[ignore_whitespace(current_index) + 1] # B_LT)
          => /\ stack = <<>>
             /\ pc' = "done"
             /\ document' = NoDocument
             /\ current_index' = ignore_whitespace(current_index)
             /\ panic'.kind = "unwrap"
             /\ panic'.error = StartOfNodeError(ignore_whitespace(current_index))]_vars

\* C14 witness: after a complete top-level node only whitespace was left, and the
\* parse failed at the end of the source with the start-of-a-node error.
C14_TrailingWhitespaceFailed ==
    /\ pc = "done"
    /\ Len(source) >= 2
    /\ source[1] = B_LT
    /\ source[Len(source)] \in space_chars
    /\ current_index = Len(source)
    /\ html_nodes = <<>>
    /\ document = NoDocument
    /\ panic.error = StartOfNodeError(Len(source))

\* C15: the cursor is an offset into the source or its end, in every state; the
\* jumps over "<!-" (+3), "</" (+2) and '<' are taken from a cursor that has
\* these bytes before the end of the source; and the cursor leaves the "<!" of a
\* doctype declaration only over the 9 bytes of "<!DOCTYPE", which are there.
C15_CursorWithinSource ==
    /\ current_index \in 0..Len(source)
    /\ pc = "comment"
          => /\ current_index + 3 <= Len(source)
             /\ SubSeq(source, current_index + 1, current_index + 3)
                  = <<B_LT, B_BANG, B_DASH>>
             /\ comment(current_index).idx \in (current_index + 3)..Len(source)
    /\ pc = "close_tag"
          => /\ current_index + 2 <= Len(source)
             /\ SubSeq(source, current_index + 1, current_index + 2) = <<B_LT, B_SLASH>>
             /\ element_close(stack[Len(stack)].name, current_index).idx
                  \in (current_index + 2)..Len(source)
    /\ pc = "element"
          => /\ current_index + 1 <= Len(source)
             /\ source[current_index + 1] = B_LT
             /\ element_open(current_index).idx \in (current_index + 1)..Len(source)
    /\ pc = "doctype"
          => /\ current_index + 2 <= Len(source)
             /\ SubSeq(source, current_index + 1, current_index + 2) = <<B_LT, B_BANG>>
             /\ doctype_declaration(current_index).idx # current_index
                  => /\ DoctypeLiteralFollows
                     /\ doctype_declaration(current_index).idx
                          \in (current_index + 9)..Len(source)
    /\ pc = "foreign_text"
          => foreign_text(current_index, stack[Len(stack)].name).idx
                 \in current_index..Len(source)

\* C15 witness: a Document was returned for a source with a doctype declaration
\* inside an element, the cursor having jumped over "<!DOCTYPE" and over the "</"
\* of the closing tag to the end of the source.
C15_JumpsTaken ==
    /\ document # NoDocument
    /\ current_index = Len(source)
    /\ Len(document.html) = 1
    /\ document.html[1].kind = "Element"
    /\ \E k \in 1..Len(document.html[1].children) :
          document.html[1].children[k].kind = "Doctype"

====
